---- MODULE Spec2Model ----
(***************************************************************************)
(* Model of mapproxy/seed/seeder.py: the recursive seed traversal          *)
(* (Seeder), the worker pool (SeedPool, SeedWorker) and the task loop      *)
(* (seed_tasks).                                                           *)
(*                                                                         *)
(* Collaborators that are outside the file (grid, coverage, tile manager)  *)
(* are modelled by the answers they give.  An answer is fixed the first    *)
(* time it is asked for and stays the same afterwards, so a second run of  *)
(* the same task sees the same grid and the same coverage.                 *)
(***************************************************************************)
EXTENDS Integers, Sequences, FiniteSets, TLC

\* ---------------------------------------------------------------- bounds
MaxTiles == 3       \* largest number of tiles of a grid, all levels together
MaxFan == 2         \* largest cols x rows of one subdivision
MaxWorkers == 2     \* largest pool size (concurrency)
MaxRuns == 2        \* longest task list given to seed_tasks
QueueSize == 2      \* capacity of tiles_queue (32 in the source, scaled)
MaxRepeat == 2      \* attempts of exp_backoff before it gives up

\* ------------------------------------------------------- program constants
NONE == 0
CONTAINS == -1
INTERSECTS == 1

VARIABLES
    \* inputs of seed_tasks
    tasks,          \* length of the task list: the same SeedTask, tasks times
    refresh_timestamp,  \* whether the task has a refresh timestamp
    concurrency, dry_run, skip_geoms_for_last_levels,
    \* collaborators
    grid,           \* grid[d]: cols x rows of a subdivision at depth d
    gridSlot,       \* tile -> "?" | "absent" | "present"
    coverage,       \* tile -> "?" | "in" | "part" | "out"
    cache,          \* tile -> "?" | "missing" | "old" (there before seed_tasks)
                    \*         | "fresh" (loaded by a worker)
    expire_timestamp,
    \* seed_tasks
    pc, run, sentinels, joined,
    \* Seeder
    stack, progress, count, eta,
    \* SeedPool / SeedWorker
    tiles_queue, procs, wtiles, attempts, raised,
    \* history: of the current run, and whether the earlier runs lost no worker
    covCalls, cachedCalls, misses, submitted, dequeued, clean,
    snapshots       \* the ProgressState at each SeedPool.seed call, in order

envVars == <<tasks, refresh_timestamp, concurrency, dry_run, skip_geoms_for_last_levels, grid>>
seederVars == <<stack, progress, count, eta>>
poolVars == <<tiles_queue, procs, wtiles, attempts, raised>>
histVars == <<covCalls, cachedCalls, misses, submitted, dequeued, clean, snapshots>>
vars == <<envVars, gridSlot, coverage, cache, expire_timestamp, pc, run, sentinels,
          joined, seederVars, poolVars, histVars>>

\* ------------------------------------------------------------- rationals
\* progress is a Python float; it is kept here as an exact fraction <<n, d>>.
RECURSIVE GCD(_, _)
GCD(a, b) == IF b = 0 THEN a ELSE GCD(b, a % b)

Norm(r) == LET g == GCD(r[1], r[2]) IN IF g = 0 THEN r ELSE <<r[1] \div g, r[2] \div g>>
Zero == <<0, 1>>
One == <<1, 1>>
RatAdd(a, b) == Norm(<<a[1] * b[2] + b[1] * a[2], a[2] * b[2]>>)
RatDiv(a, k) == Norm(<<a[1], a[2] * k>>)
RatLeq(a, b) == a[1] * b[2] <= b[1] * a[2]

\* ------------------------------------------------------------------ grid
None == <<0>>
Unknown == "?"

TileCount(fan) ==
    LET RECURSIVE Cnt(_)
        Cnt(d) == IF d > Len(fan) THEN 0 ELSE fan[d] * (1 + Cnt(d + 1))
    IN Cnt(1)

\* a level has at least one tile, so MaxTiles bounds the depth too
Shapes ==
    {f \in UNION {[1..n -> 1..MaxFan] : n \in 1..MaxTiles} : TileCount(f) <= MaxTiles}

\* the tiles of a grid: a tile is the path of sibling indices that leads to it
TilesOf(fan) ==
    LET widest == CHOOSE m \in {fan[k] : k \in 1..Len(fan)} :
                      \A k \in 1..Len(fan) : fan[k] <= m
    IN UNION {{p \in [1..n -> 1..widest] : \A k \in 1..n : p[k] <= fan[k]} :
              n \in 1..Len(fan)}

Tiles == TilesOf(grid)
Depth(tile) == Len(tile)
\* task.levels
levels == [k \in 1..Len(grid) |-> k]
IsLeaf(tile) == Depth(tile) = Len(levels)

\* MetaGrid.get_affected_level_tiles: the number of slots of the subdivision
get_affected_level_tiles(level) == grid[level]

\* status_symbol(i, total): the symbol of sibling i in a progress string
status_symbol(i, total) == i

\* ------------------------------------------------------------- coverage
coverage_contains(answer) == answer = "in"
coverage_intersects(answer) == answer \in {"in", "part"}

\* SeedTask.intersects
intersects(answer) ==
    IF coverage_contains(answer) THEN CONTAINS
    ELSE IF coverage_intersects(answer) THEN INTERSECTS
    ELSE NONE

filter_subtilesKeepsAll(slot, answer, all_subtiles) ==
    IF slot = "absent" THEN [asked |-> FALSE, intersection |-> NONE]
    ELSE IF all_subtiles THEN [asked |-> FALSE, intersection |-> CONTAINS]
    ELSE [asked |-> TRUE, intersection |-> INTERSECTS]
\* Seeder._filter_subtiles, one subtile: whether the coverage is asked, and
\* the intersection that is yielded, NONE standing for (None, None, None)
filter_subtiles(slot, answer, all_subtiles) ==
    IF slot = "absent" THEN [asked |-> FALSE, intersection |-> NONE]
    ELSE IF all_subtiles THEN [asked |-> FALSE, intersection |-> CONTAINS]
    ELSE [asked |-> TRUE, intersection |-> intersects(answer)]

\* the answers a collaborator can give: the one it gave before, or any
SlotAnswers(tile) ==
    IF gridSlot[tile] = Unknown THEN {"absent", "present"} ELSE {gridSlot[tile]}
CoverageAnswers(tile) ==
    IF coverage[tile] = Unknown THEN {"in", "part", "out"} ELSE {coverage[tile]}
\* a refresh timestamp is taken to be newer than every tile that was there
\* before seed_tasks and older than every tile a worker loads
CacheAnswers(tile) ==
    IF cache[tile] # Unknown THEN {cache[tile]}
    ELSE IF expire_timestamp THEN {"missing"} ELSE {"missing", "old"}

\* TileManager.is_cached: a tile older than _expire_timestamp does not count
is_cached(entry, expire) == entry = "fresh" \/ (entry = "old" /\ ~expire)

\* ---------------------------------------------------------------- Seeder
Top == stack[Len(stack)]
Pop == SubSeq(stack, 1, Len(stack) - 1)
SetTop(f) == [stack EXCEPT ![Len(stack)] = f]

\* Seeder._seed, lines 128-130: do not filter in the last levels
SkipGeomsOffByOne(rest, skip, all_subtiles) ==
    IF Len(rest) <= skip THEN TRUE ELSE all_subtiles
SkipGeomsNever(rest, skip, all_subtiles) == all_subtiles
SkipGeoms(rest, skip, all_subtiles) == IF Len(rest) < skip THEN TRUE ELSE all_subtiles

SubProgressUndivided(prog, total_sub_seeds) == prog
\* Seeder._seed, line 136: the share of one subtile
SubProgress(prog, total_sub_seeds) == RatDiv(prog, total_sub_seeds)

\* Seeder._seed, lines 124-136: the frame of a call before its loop.
\* filter_all is the all_subtiles the generator _filter_subtiles was given,
\* all_subtiles the local variable the loop assigns later
seed_call(cur, lvls, progess_str, prog, all_subtiles) ==
    LET current_level == Head(lvls)
        rest == Tail(lvls)
        total_sub_seeds == get_affected_level_tiles(current_level)
        all == SkipGeoms(rest, skip_geoms_for_last_levels, all_subtiles)
    IN [cur |-> cur, levels |-> rest, total |-> total_sub_seeds, i |-> 1,
        filter_all |-> all, all_subtiles |-> all,
        progress |-> SubProgress(prog, total_sub_seeds),
        progess_str |-> progess_str, at |-> "next"]

FilterAllLive(f) == f.all_subtiles
\* Seeder._seed, line 131: the generator got all_subtiles as its argument
\* when it was made; what line 145 or 147 assigns later does not reach it
FilterAll(f) == f.filter_all

NoIntersectionNever(intersection) == FALSE
\* Seeder._seed, line 138: subtile is None, the generator found no intersection
NoIntersection(intersection) == intersection = NONE

RecurseAllNever(intersection) == FALSE
\* Seeder._seed, lines 144-147: all_subtiles for the recursion
RecurseAll(intersection) == intersection = CONTAINS

ShouldSeedAlways(entry, expire) == TRUE
\* Seeder._seed, line 151
ShouldSeed(entry, expire) == ~is_cached(entry, expire)

LeafProgressMinus(f) ==
    IF f.levels = <<>> THEN RatAdd(progress, <<0 - f.progress[1], f.progress[2]>>)
    ELSE progress
\* the end of one loop iteration, lines 156-157
LeafProgress(f) == IF f.levels = <<>> THEN RatAdd(progress, f.progress) ELSE progress
NextChildSkips(f) == [f EXCEPT !.i = f.i + 2, !.at = "next"]
NextChild(f) == [f EXCEPT !.i = f.i + 1, !.at = "next"]

\* Sentinel and batch, as put on tiles_queue.  The tuple of line 154 holds
\* the string and the float by value and the ETA object self.eta by
\* reference: `eta` is what a reader of the item finds there, `live` whether
\* the item still refers to the object the traversal updates
Sentinel == [tiles |-> None, str |-> <<>>, progress |-> Zero, eta |-> Zero, live |-> FALSE]
Batch(tiles, str, prog, e) ==
    [tiles |-> tiles, str |-> str, progress |-> prog, eta |-> e, live |-> TRUE]
\* (progess_str, self.progress, self.eta) as values
ProgressState(str, prog, e) == [str |-> str, progress |-> prog, eta |-> e]

\* self.eta.update(self.progress), line 159, as seen through the items of the
\* queue: the first k items have been serialized for the worker processes
\* by now and keep what they hold; the items that still refer to self.eta
\* (all of them in the thread-backed pool) show the updated object
EtaUpdate(q, k, e) ==
    [j \in 1..Len(q) |->
        IF j <= k THEN [q[j] EXCEPT !.live = FALSE]
        ELSE IF q[j].live THEN [q[j] EXCEPT !.eta = e]
        ELSE q[j]]

\* how one call of tile_mgr.load_tile_coords can end
Outcomes == {"ok", "SourceError", "IOError", "OtherError"}

AllErrorKinds == {"SourceError", "IOError", "OtherError"}
\* SeedWorker.run, line 93: exceptions=(SourceError, IOError)
RetryableKinds == {"SourceError", "IOError"}

QueueNeverFull(q) == FALSE
\* queue_class(32): put blocks while the queue is full; the queue is FIFO
QueueFull(q) == Len(q) >= QueueSize
QueuePutFront(q, item) == <<item>> \o q
QueuePut(q, item) == Append(q, item)

\* SeedPool.stop, line 65: how many sentinels are put
StopSentinels == Len(procs)

JoinedNoWait(state) == TRUE
\* proc.join() returns once the worker has ended
Joined(state) == state \in {"exited", "crashed"}

JoinsFirstOnly(n) == FALSE
\* SeedPool.stop, line 68: the loop over self.procs, n workers joined so far
JoinsLeft(n) == n < Len(procs)

LoadsAlways(dry) == TRUE
\* SeedWorker.run, line 91: if not self.dry_run
Loads(dry) == ~dry

RaiseAll(w) == [v \in DOMAIN procs |-> "crashed"]
\* an exception that leaves SeedWorker.run ends that worker, and only it
Raise(w) == [procs EXCEPT ![w] = "crashed"]

\* ------------------------------------------------------------------ Init
\* the state before seed_tasks is called, for a grid among `shapes`, a task
\* list of one of the lengths `lists` and a pool of one of the sizes `pools`
InitFor(shapes, lists, pools) ==
    /\ tasks \in lists
    /\ refresh_timestamp \in BOOLEAN
    /\ grid \in shapes
    /\ concurrency \in pools
    /\ dry_run \in BOOLEAN
    /\ skip_geoms_for_last_levels \in 0..(Len(grid) + 1)
    /\ gridSlot = [t \in Tiles |-> Unknown]
    /\ coverage = [t \in Tiles |-> Unknown]
    /\ cache = [t \in Tiles |-> Unknown]
    /\ expire_timestamp = FALSE
    /\ pc = "idle" /\ run = 0 /\ sentinels = 0 /\ joined = 0
    /\ stack = <<>> /\ progress = Zero /\ count = 0 /\ eta = Zero
    /\ tiles_queue = <<>> /\ procs = <<>> /\ wtiles = <<>> /\ attempts = <<>>
    /\ raised = <<>>
    /\ covCalls = {} /\ cachedCalls = {} /\ misses = {}
    /\ submitted = <<>> /\ dequeued = <<>>
    /\ clean = TRUE
    /\ snapshots = <<>>

Init == InitFor(Shapes, 1..MaxRuns, 1..MaxWorkers)

\* ------------------------------------------------------------ seed_tasks
\* lines 205-213 up to the first call of _seed: a new pool with its workers
\* started, a new Seeder, and Seeder.seed entered
StartTask ==
    /\ pc = "idle" /\ run < tasks
    /\ run' = run + 1
    /\ expire_timestamp' = IF refresh_timestamp THEN TRUE ELSE expire_timestamp
    /\ tiles_queue' = <<>>
    /\ procs' = [w \in 1..concurrency |-> "waiting"]
    /\ wtiles' = [w \in 1..concurrency |-> None]
    /\ attempts' = [w \in 1..concurrency |-> 0]
    /\ raised' = [w \in 1..concurrency |-> "ok"]
    /\ progress' = Zero /\ count' = 0 /\ eta' = Zero
    /\ stack' = <<seed_call(<<>>, levels, <<>>, One, FALSE)>>
    /\ pc' = "seeding"
    /\ sentinels' = 0 /\ joined' = 0
    /\ covCalls' = {} /\ cachedCalls' = {} /\ misses' = {}
    /\ submitted' = <<>> /\ dequeued' = <<>>
    /\ snapshots' = <<>>
    /\ clean' = (clean /\ \A w \in DOMAIN procs : procs[w] # "crashed")
    /\ UNCHANGED <<envVars, gridSlot, coverage, cache>>

\* Seeder._seed, lines 151-152 for the subtile of frame f, whose callers are
\* the frames `below` (and lines 156-157 when the tile is cached)
CheckCached(below, f) ==
    LET subtile == Append(f.cur, f.i) IN
    \E entry \in CacheAnswers(subtile) :
      /\ cache' = [cache EXCEPT ![subtile] = entry]
      /\ cachedCalls' = cachedCalls \cup {subtile}
      /\ misses' = IF is_cached(entry, expire_timestamp) THEN misses
                    ELSE misses \cup {subtile}
      /\ IF ShouldSeed(entry, expire_timestamp)
         THEN /\ count' = count + 1
              /\ stack' = Append(below, [f EXCEPT !.at = "put"])
              /\ UNCHANGED progress
         ELSE /\ progress' = LeafProgress(f)
              /\ stack' = Append(below, NextChild(f))
              /\ UNCHANGED count

\* Seeder._seed, lines 137-152: the loop takes the next subtile from the
\* generator; a pruned one is counted at once, one with levels below it is
\* recursed into, a leaf is looked up in the cache
SeedChild ==
    /\ pc = "seeding" /\ Top.at = "next" /\ Top.i <= Top.total
    /\ LET f == Top
           subtile == Append(f.cur, f.i)
       IN \E slot \in SlotAnswers(subtile), answer \in CoverageAnswers(subtile) :
            LET sub == filter_subtiles(slot, answer, FilterAll(f))
                asked == sub.asked
                intersection == sub.intersection
            IN /\ gridSlot' = [gridSlot EXCEPT ![subtile] = slot]
               /\ coverage' = IF asked THEN [coverage EXCEPT ![subtile] = answer]
                              ELSE coverage
               /\ covCalls' = IF asked THEN covCalls \cup {subtile} ELSE covCalls
               /\ IF NoIntersection(intersection)
                  THEN /\ progress' = RatAdd(progress, f.progress)
                       /\ stack' = SetTop(NextChild(f))
                       /\ UNCHANGED <<count, cache, cachedCalls, misses>>
                  ELSE IF f.levels # <<>>
                  THEN LET all == RecurseAll(intersection)
                           cur_progess_str ==
                               Append(f.progess_str, status_symbol(f.i, f.total))
                       IN /\ stack' = Append(
                                 SetTop([f EXCEPT !.all_subtiles = all, !.at = "back"]),
                                 seed_call(subtile, f.levels, cur_progess_str,
                                           f.progress, all))
                          /\ UNCHANGED <<progress, count, cache, cachedCalls, misses>>
                  ELSE CheckCached(Pop, f)
    /\ UNCHANGED <<envVars, expire_timestamp, pc, run, sentinels, joined, eta,
                   poolVars, submitted, dequeued, clean, snapshots>>

\* Seeder._seed, line 159: the loop is over and the call returns, to seed()
\* (lines 114-115) or to the caller's loop, which looks its subtile up in the
\* cache (lines 151-152)
SeedReturn ==
    /\ pc = "seeding" /\ Top.at = "next" /\ Top.i > Top.total
    /\ eta' = progress
    /\ \E k \in 0..Len(tiles_queue) : tiles_queue' = EtaUpdate(tiles_queue, k, progress)
    /\ IF Len(stack) = 1
       THEN /\ stack' = <<>>
            /\ pc' = "stopping"
            /\ UNCHANGED <<progress, count, cache, cachedCalls, misses>>
       ELSE /\ CheckCached(SubSeq(stack, 1, Len(stack) - 2), stack[Len(stack) - 1])
            /\ UNCHANGED pc
    /\ UNCHANGED <<envVars, gridSlot, coverage, expire_timestamp, run, sentinels,
                   joined, procs, wtiles, attempts, raised, covCalls, submitted,
                   dequeued, clean, snapshots>>

\* SeedPool.seed: tiles_queue.put blocks while the queue is full
\* (lines 153-154, 61-62, then 156-157)
SeedPut ==
    /\ pc = "seeding" /\ Top.at = "put"
    /\ ~QueueFull(tiles_queue)
    /\ LET f == Top
           subtile == Append(f.cur, f.i)
       IN /\ tiles_queue' = QueuePut(tiles_queue,
                                      Batch(subtile, f.progess_str, progress, eta))
          /\ submitted' = Append(submitted, subtile)
          /\ snapshots' = Append(snapshots, ProgressState(f.progess_str, progress, eta))
          /\ progress' = LeafProgress(f)
          /\ stack' = SetTop(NextChild(f))
    /\ UNCHANGED <<envVars, gridSlot, coverage, cache, expire_timestamp, pc, run,
                   sentinels, joined, count, eta, procs, wtiles, attempts, raised,
                   covCalls, cachedCalls, misses, dequeued, clean>>

\* SeedPool.stop, lines 65-66: one sentinel per worker
StopPut ==
    /\ pc = "stopping"
    /\ ~QueueFull(tiles_queue)
    /\ tiles_queue' = QueuePut(tiles_queue, Sentinel)
    /\ sentinels' = sentinels + 1
    /\ pc' = IF sentinels + 1 >= StopSentinels THEN "joining" ELSE pc
    /\ UNCHANGED <<envVars, gridSlot, coverage, cache, expire_timestamp, run, joined,
                   seederVars, procs, wtiles, attempts, raised, histVars>>

\* SeedPool.stop, lines 68-69: join the workers one after another
StopJoin ==
    /\ pc = "joining"
    /\ Joined(procs[joined + 1])
    /\ joined' = joined + 1
    /\ pc' = IF JoinsLeft(joined + 1) THEN pc
             ELSE IF run < tasks THEN "idle" ELSE "done"
    /\ UNCHANGED <<envVars, gridSlot, coverage, cache, expire_timestamp, run, sentinels,
                   seederVars, poolVars, histVars>>

\* ------------------------------------------------------------ SeedWorker
\* what SeedWorker.run prints for an item, lines 86-89
Printed(item) == ProgressState(item.str, item.progress, item.eta)

\* SeedWorker.run, lines 83-91: take the next item; leave on a sentinel,
\* else print the progress and, unless dry_run, start loading
WorkerGet(w) ==
    /\ procs[w] = "waiting"
    /\ tiles_queue # <<>>
    /\ LET item == Head(tiles_queue) IN
       /\ tiles_queue' = Tail(tiles_queue)
       /\ IF item.tiles = None
          THEN /\ procs' = [procs EXCEPT ![w] = "exited"]
               /\ UNCHANGED <<wtiles, attempts, raised, dequeued>>
          ELSE /\ dequeued' = Append(dequeued, item.tiles)
               /\ IF ~Loads(dry_run)
                  THEN UNCHANGED <<procs, wtiles, attempts, raised>>
                  ELSE /\ procs' = [procs EXCEPT ![w] = "loading"]
                       /\ wtiles' = [wtiles EXCEPT ![w] = item.tiles]
                       /\ attempts' = [attempts EXCEPT ![w] = 0]
                       /\ raised' = [raised EXCEPT ![w] = "ok"]
    /\ UNCHANGED <<envVars, gridSlot, coverage, cache, expire_timestamp, pc, run,
                   sentinels, joined, seederVars, covCalls, cachedCalls, misses,
                   submitted, clean, snapshots>>

\* exp_backoff(func, exceptions=...), after attempt number n + 1 of func has
\* ended with `kind`: "done" (return), "retry" (wait, call func again) or
\* "raise" (the error leaves exp_backoff)
exp_backoff(kind, n, exceptions) ==
    IF kind = "ok" THEN "done"
    ELSE IF kind \in exceptions /\ n + 1 < MaxRepeat THEN "retry"
    ELSE "raise"

\* SeedWorker.run, lines 92-93: one attempt of load_tile_coords inside
\* exp_backoff; a success caches the tile and the loop goes on (line 83)
WorkerLoad(w) ==
    /\ procs[w] = "loading"
    /\ \E kind \in Outcomes :
         LET then == exp_backoff(kind, attempts[w], RetryableKinds) IN
         /\ procs' = CASE then = "done" -> [procs EXCEPT ![w] = "waiting"]
                       [] then = "retry" -> procs
                       [] OTHER -> Raise(w)
         /\ attempts' = [attempts EXCEPT ![w] = IF then = "retry" THEN @ + 1 ELSE @]
         /\ raised' = [raised EXCEPT ![w] = IF kind = "ok" THEN @ ELSE kind]
         /\ wtiles' = [wtiles EXCEPT ![w] = IF then = "done" THEN None ELSE @]
         /\ cache' = IF then = "done" THEN [cache EXCEPT ![wtiles[w]] = "fresh"] ELSE cache
    /\ UNCHANGED <<envVars, gridSlot, coverage, expire_timestamp, pc, run, sentinels,
                   joined, seederVars, tiles_queue, histVars>>

Next ==
    \/ StartTask
    \/ SeedChild
    \/ SeedReturn
    \/ SeedPut
    \/ StopPut
    \/ StopJoin
    \/ \E w \in DOMAIN procs : WorkerGet(w)
    \/ \E w \in DOMAIN procs : WorkerLoad(w)

Spec == Init /\ [][Next]_vars

\* the same, and also one task on the grid of the containment example (1 cell
\* at level 0, a 2 x 2 subdivision at level 1) with one worker
Grid2x2 == <<1, 4>>
InitSaturation == Init \/ InitFor({Grid2x2}, {1}, {1})
SpecSaturation == InitSaturation /\ [][Next]_vars

\* the same as Spec, and also one task on a grid of two cells at level 0, each
\* with one cell below it at level 1: two siblings that have subtrees
Grid2Deep == <<2, 1>>
InitSubtrees == Init \/ InitFor({Grid2Deep}, {1}, {1})
SpecSubtrees == InitSubtrees /\ [][Next]_vars

\* ------------------------------------------------- vocabulary of the claims
\* seed_pool.stop() of the current run has returned
StopReturned == run >= 1 /\ pc \in {"idle", "done"}
\* seeder.seed() of the current run has returned
TraversalDone == run >= 1 /\ pc \in {"stopping", "joining", "idle", "done"}
NoCrash == \A w \in DOMAIN procs : procs[w] # "crashed"
Count(seq, x) == Cardinality({k \in 1..Len(seq) : seq[k] = x})
NoRepeats(seq) == \A j, k \in 1..Len(seq) : seq[j] = seq[k] => j = k
Elems(seq) == {seq[k] : k \in 1..Len(seq)}
IsPrefix(a, b) == Len(a) <= Len(b) /\ SubSeq(b, 1, Len(a)) = a
IsBelow(d, t) == Len(t) < Len(d) /\ SubSeq(d, 1, Len(t)) = t
Parent(t) == SubSeq(t, 1, Len(t) - 1)
\* the tiles of the batches that wait in the queue, in order
QueuedTiles ==
    LET batches == SelectSeq(tiles_queue, LAMBDA item : item.tiles # None)
    IN [k \in 1..Len(batches) |-> batches[k].tiles]
QueuedSentinels == Cardinality({k \in 1..Len(tiles_queue) : tiles_queue[k].tiles = None})
Exited == {w \in DOMAIN procs : procs[w] = "exited"}
Crashed == {w \in DOMAIN procs : procs[w] = "crashed"}
\* what the traversal of the current run found out about a tile
Pruned(t) == gridSlot[t] = "absent" \/ (t \in covCalls /\ coverage[t] = "out")
RECURSIVE Visited(_)
Visited(t) == Len(t) = 1 \/ (Visited(Parent(t)) /\ ~Pruned(Parent(t)))

\* ----------------------------------------------------------------- C1
\* C1: as long as no worker has crashed, the batches are dequeued in the
\* order they were submitted, none twice, no two workers hold the same batch,
\* a worker exits only on its one sentinel and only when the traversal is
\* over and every batch has been dequeued, and once stop() has returned all
\* workers have exited, every submitted batch was dequeued once and (unless
\* dry_run) loaded, and the queue is empty.
C1_GracefulShutdown ==
    NoCrash =>
      /\ IsPrefix(dequeued, submitted)
      /\ NoRepeats(submitted) /\ NoRepeats(dequeued)
      /\ \A w, v \in DOMAIN procs :
           (w # v /\ procs[w] = "loading") => wtiles[w] # wtiles[v]
      /\ \A w \in Exited : TraversalDone /\ dequeued = submitted
      /\ Cardinality(Exited) + QueuedSentinels = sentinels
      /\ StopReturned =>
           /\ Exited = DOMAIN procs
           /\ dequeued = submitted
           /\ tiles_queue = <<>>
           /\ dry_run \/ \A t \in Elems(submitted) : cache[t] = "fresh"

C1_Witness ==
    /\ StopReturned /\ NoCrash /\ ~dry_run
    /\ concurrency = 2 /\ Len(submitted) >= 2
    /\ dequeued = submitted

\* ----------------------------------------------------------------- C2
\* C2 as claimed: only tiles of the last level are ever submitted.
C2_OnlyLeavesSubmitted == \A t \in Elems(submitted) : IsLeaf(t)

\* C2 as amended: a tile of any level is submitted, once, exactly when the
\* traversal reached it, did not prune it and is_cached said no; count is the
\* number of such tiles (one ahead of the queue while a put is pending).
C2_SubmittedAreUncachedVisited ==
    /\ NoRepeats(submitted)
    /\ \A t \in Elems(submitted) : Visited(t) /\ ~Pruned(t) /\ t \in misses
    /\ misses \subseteq cachedCalls
    /\ count = Cardinality(misses)
    /\ Len(submitted) = count - (IF pc = "seeding" /\ Top.at = "put" THEN 1 ELSE 0)
    /\ TraversalDone =>
         /\ cachedCalls = {t \in Tiles : Visited(t) /\ gridSlot[t] = "present" /\ ~Pruned(t)}
         /\ Elems(submitted) = misses
         /\ count = Len(submitted)

C2_Witness ==
    /\ pc = "stopping"
    /\ \E t \in Elems(submitted) : ~IsLeaf(t)
    /\ \E t \in Elems(submitted) : IsLeaf(t)
    /\ \E t \in cachedCalls : t \notin misses

CoverageNowhere == \A t \in Tiles : coverage[t] \in {Unknown, "out"}
NothingSeeded ==
    /\ submitted = <<>> /\ count = 0
    /\ TraversalDone => progress = One

\* C4 as claimed: with a coverage that reports NONE for every bounding box,
\* nothing is submitted, whatever skip_geoms_for_last_levels is.
C4_NothingSeededAnySkip == (run >= 1 /\ CoverageNowhere) => NothingSeeded

\* C4 as amended: with a coverage that reports NONE for every bounding box
\* and skip_geoms_for_last_levels < len(task.levels), nothing is submitted,
\* count stays 0 and the traversal ends with progress 1.
C4_NothingSeededSkipBelowDepth ==
    (run >= 1 /\ CoverageNowhere /\ skip_geoms_for_last_levels < Len(levels))
        => NothingSeeded

C4_Witness ==
    /\ pc = "stopping" /\ CoverageNowhere
    /\ Len(levels) = 2 /\ skip_geoms_for_last_levels = 1
    /\ \E t \in covCalls : gridSlot[t] = "present"
    /\ progress = One /\ count = 0

\* ----------------------------------------------------------------- C5
\* the coverage said CONTAINS for t in this run
SaidContains(t) == t \in covCalls /\ coverage[t] = "in"
LeavesSubmitted == {k \in 1..Len(submitted) : IsLeaf(submitted[k])}

\* C5: below a tile the coverage said CONTAINS for, the coverage is never
\* asked again; when the traversal is over every leaf below it that the grid
\* has was looked up in the cache and, if is_cached said no, submitted exactly
\* once (else not at all).  On the 1 + 2x2 grid with a CONTAINS extent and
\* four uncached leaves, exactly four leaf tiles are submitted, each once, and
\* the coverage was asked about the level-0 tile alone.
C5_ContainmentSaturation ==
    /\ \A t, d \in Tiles : (SaidContains(t) /\ IsBelow(d, t)) => d \notin covCalls
    /\ TraversalDone =>
         \A t, d \in Tiles :
           (SaidContains(t) /\ Visited(t) /\ IsBelow(d, t) /\ IsLeaf(d) /\ Visited(d)
              /\ gridSlot[d] = "present")
           => /\ d \in cachedCalls
              /\ Count(submitted, d) = (IF d \in misses THEN 1 ELSE 0)
              /\ (run = 1 /\ cache[d] # "old") => d \in misses
    /\ (/\ grid = Grid2x2 /\ run = 1 /\ TraversalDone
        /\ SaidContains(<<1>>)
        /\ \A i \in 1..4 : gridSlot[<<1, i>>] # "absent" /\ cache[<<1, i>>] # "old")
       => /\ Cardinality(LeavesSubmitted) = 4
          /\ \A i \in 1..4 : Count(submitted, <<1, i>>) = 1
          /\ covCalls = {<<1>>}

C5_Witness ==
    /\ grid = Grid2x2 /\ pc = "stopping"
    /\ SaidContains(<<1>>)
    /\ Cardinality(LeavesSubmitted) = 4
    /\ Len(submitted) = 5

\* ----------------------------------------------------------------- C6
\* a step in which worker w crashes changes no other worker, nor the queue,
\* nor the traversal
CrashIsolated ==
    \A w \in DOMAIN procs :
      (procs[w] # "crashed" /\ procs'[w] = "crashed")
      => /\ \A v \in DOMAIN procs \ {w} : procs'[v] = procs[v] /\ wtiles'[v] = wtiles[v]
         /\ tiles_queue' = tiles_queue
         /\ pc' = pc /\ stack' = stack
\* no batch is lost: the submitted ones are the dequeued ones, then the queued
BatchesConserved == submitted = dequeued \o QueuedTiles
\* with a worker that lasted until its sentinel, every batch was dequeued
\* once and loaded, but for those whose load crashed a worker
SurvivorDrains ==
    (StopReturned /\ Exited # {})
    => /\ dequeued = submitted /\ NoRepeats(dequeued)
       /\ \A t \in Elems(submitted) :
            \/ dry_run
            \/ cache[t] = "fresh"
            \/ \E w \in Crashed : wtiles[w] = t

\* C6: a crash ends the worker that crashed and nothing else; no batch is
\* ever lost from the queue; and if at least one worker lasts until stop(),
\* every batch other than those whose load crashed a worker has been dequeued
\* exactly once and loaded when stop() returns.
C6_FailureIsolation ==
    /\ [](BatchesConserved /\ SurvivorDrains)
    /\ [][CrashIsolated]_vars

C6_Witness ==
    /\ StopReturned /\ concurrency = 2
    /\ \E w \in Crashed : raised[w] = "OtherError" /\ wtiles[w] = submitted[1]
    /\ Exited # {}
    /\ Len(submitted) = 3
    /\ cache[submitted[2]] = "fresh" /\ cache[submitted[3]] = "fresh"

\* ----------------------------------------------------------------- C7
\* C7 as claimed: the run never gets stuck before seed_tasks is over, and
\* when stop() has returned no worker is running and no batch is left in
\* the queue, also when workers were lost.
C7_CompletesDespiteWorkerLoss ==
    /\ pc = "done" \/ ENABLED Next
    /\ StopReturned =>
         /\ \A w \in DOMAIN procs : procs[w] \in {"exited", "crashed"}
         /\ QueuedTiles = <<>>

\* ----------------------------------------------------------------- C8
\* the traversal waits in SeedPool.seed with the queue full
BlockedInPut == pc = "seeding" /\ Top.at = "put" /\ Len(tiles_queue) = QueueSize

\* C8: the queue never holds more than its capacity; nothing is put while
\* it is full, and the traversal does not move while it waits in a put on
\* the full queue; count is never more than capacity + K ahead of the
\* batches dequeued.
C8_Backpressure ==
    /\ [](/\ Len(tiles_queue) <= QueueSize
          /\ run >= 1 => count - Len(dequeued) <= QueueSize + concurrency)
    /\ [][/\ Len(tiles_queue') > Len(tiles_queue) => Len(tiles_queue) < QueueSize
          /\ BlockedInPut => (seederVars' = seederVars /\ submitted' = submitted)]_vars

C8_Witness == BlockedInPut /\ count = 3 /\ dequeued = <<>>

\* ----------------------------------------------------------------- C9
\* C9: in a run that follows runs of the same task without dry_run, without
\* a refresh timestamp and without a lost worker, nothing is submitted, count
\* stays 0 and the traversal ends with progress 1; and in any run, as long as
\* is_cached has said yes each time, nothing is submitted.
C9_IdempotentReseed ==
    /\ (run >= 2 /\ clean /\ ~dry_run /\ ~refresh_timestamp)
         => (NothingSeeded /\ misses = {})
    /\ misses = {} => (submitted = <<>> /\ count = 0)

C9_Witness ==
    /\ run = 2 /\ pc = "done" /\ clean /\ ~dry_run /\ ~refresh_timestamp
    /\ Cardinality({t \in Tiles : cache[t] = "fresh"}) >= 2
    /\ cachedCalls # {} /\ submitted = <<>> /\ progress = One

\* ---------------------------------------------------------------- C10
\* what a step does to a worker that is loading a batch: it goes on with the
\* same batch (after a retryable error, one attempt further), or the batch
\* is loaded and it waits for the next item, or the error ends it
LoadStep ==
    \A w \in DOMAIN procs :
      procs[w] = "loading" =>
        \/ /\ procs'[w] = "loading" /\ wtiles'[w] = wtiles[w]
           /\ \/ attempts'[w] = attempts[w] /\ raised'[w] = raised[w]
              \/ attempts'[w] = attempts[w] + 1 /\ raised'[w] \in {"SourceError", "IOError"}
        \/ /\ procs'[w] = "waiting" /\ cache'[wtiles[w]] = "fresh"
           /\ dequeued' = dequeued
        \/ /\ procs'[w] = "crashed" /\ wtiles'[w] = wtiles[w]
           /\ attempts'[w] = attempts[w]
           /\ raised'[w] \in {"SourceError", "IOError", "OtherError"}
\* the batch a worker is loading is nowhere else, and it was retried only
\* after retryable errors; a worker that met another error has crashed
LoadConfined ==
    \A w \in DOMAIN procs :
      /\ procs[w] = "loading" =>
           /\ Count(dequeued, wtiles[w]) = 1
           /\ \A k \in 1..Len(tiles_queue) : tiles_queue[k].tiles # wtiles[w]
           /\ \A v \in DOMAIN procs \ {w} : wtiles[v] # wtiles[w]
           /\ attempts[w] > 0 => raised[w] \in {"SourceError", "IOError"}
           /\ attempts[w] = 0 => raised[w] = "ok"
      /\ raised[w] = "OtherError" => procs[w] = "crashed"

\* C10: a retryable failure is retried by the same worker on the same batch,
\* which is given to nobody else meanwhile; after a success the worker goes
\* on with the next item; any other failure is not retried and ends the
\* worker.
C10_RetryConfined == []LoadConfined /\ [][LoadStep]_vars

C10_Witness ==
    \E w \in DOMAIN procs :
      /\ procs[w] = "waiting" /\ attempts[w] = 1 /\ raised[w] \in {"SourceError", "IOError"}
      /\ \E t \in Elems(dequeued) : cache[t] = "fresh"
      /\ \E v \in DOMAIN procs : raised[v] = "OtherError" /\ attempts[v] = 0

\* ---------------------------------------------------------------- C11
\* a step of seed_tasks that creates the pool of the next task
PoolCreated == run' = run + 1

\* C11: the workers that are alive all belong to the pool of the current
\* task; the pool of the next task is created only when stop() of the task
\* before has joined every worker, each of which has ended by then; and
\* between two tasks no worker is alive.
C11_TasksSequential ==
    /\ [](/\ Len(procs) = (IF run >= 1 THEN concurrency ELSE 0)
          /\ (pc = "idle" \/ pc = "done") =>
               \A w \in DOMAIN procs : procs[w] \in {"exited", "crashed"})
    /\ [][PoolCreated =>
            /\ pc = "idle"
            /\ run >= 1 => joined = Len(procs)
            /\ \A w \in DOMAIN procs : procs[w] \in {"exited", "crashed"}]_vars

C11_Witness ==
    /\ run = 2 /\ pc = "seeding" /\ concurrency = 2
    /\ \E w \in DOMAIN procs : procs[w] = "loading"
    /\ \E w \in DOMAIN procs : procs[w] = "waiting"

\* ---------------------------------------------------------------- C12
\* a worker takes a batch from the queue and prints its progress line
Dequeues == dequeued' # dequeued

\* C12 as claimed: what a worker prints for a batch (branch path, cumulative
\* fraction, ETA) is the ProgressState at the moment the batch was enqueued.
C12_SnapshotIsolation ==
    [][Dequeues => Printed(Head(tiles_queue)) = snapshots[Len(dequeued) + 1]]_vars

\* ---------------------------------------------------------------- C13
\* C13: with dry_run no worker ever calls load_tile_coords (none is loading,
\* has retried, has met an error or has cached a tile); the batches are
\* dequeued in the order submitted, each once (and printed then); the run never
\* gets stuck; and when stop() has returned every worker has exited on its
\* sentinel, every submitted batch was dequeued and the queue is empty.
C13_DryRun ==
    dry_run =>
      /\ \A w \in DOMAIN procs :
           /\ procs[w] \in {"waiting", "exited"}
           /\ wtiles[w] = None /\ attempts[w] = 0 /\ raised[w] = "ok"
      /\ \A t \in Tiles : cache[t] # "fresh"
      /\ IsPrefix(dequeued, submitted) /\ NoRepeats(dequeued)
      /\ Cardinality(Exited) + QueuedSentinels = sentinels
      /\ pc = "done" \/ ENABLED Next
      /\ StopReturned =>
           /\ Exited = DOMAIN procs /\ sentinels = concurrency
           /\ dequeued = submitted /\ tiles_queue = <<>>

C13_Witness ==
    /\ dry_run /\ StopReturned /\ concurrency = 2
    /\ Len(submitted) = 3 /\ Len(dequeued) = 3

\* ---------------------------------------------------------------- C14
\* of two submitted tiles that are below different children of one call, the
\* one below the earlier child was submitted first
SiblingOrder ==
    \A a, b \in 1..Len(submitted) :
      a < b =>
        LET s == submitted[a]
            t == submitted[b]
        IN \A p \in 1..Len(s) :
             (p <= Len(t) /\ SubSeq(s, 1, p - 1) = SubSeq(t, 1, p - 1) /\ s[p] # t[p])
             => s[p] < t[p]

\* C14: every batch of the subtree of child i is enqueued before any batch
\* of the subtree of a later sibling j; the batches leave the queue in the
\* order they entered it (what was submitted is what was dequeued, followed
\* by what is queued), whatever the order in which their loads end.
C14_EnqueueOrder ==
    /\ SiblingOrder
    /\ IsPrefix(dequeued, submitted)
    /\ submitted = dequeued \o QueuedTiles

C14_Witness ==
    /\ grid = Grid2Deep
    /\ submitted = << <<1, 1>>, <<1>>, <<2, 1>>, <<2>> >>
    /\ dequeued = << <<1, 1>>, <<1>>, <<2, 1>> >>
    /\ cache[<<1>>] = "fresh" /\ procs[1] = "loading"

\* ---------------------------------------------------------------- C15
\* the tiles of the last skip_geoms_for_last_levels levels of task.levels
InSkippedLevels(t) == Depth(t) > Len(levels) - skip_geoms_for_last_levels
\* the coverage said CONTAINS for t or for a tile above it
ContainsAbove(t) == \E k \in 1..Len(t) : SaidContains(SubSeq(t, 1, k))

\* C15: the coverage is never asked about a tile of the last N levels, and
\* not at all when N >= L; when the traversal is over every tile of these
\* levels that it reached and the grid has was kept (looked up in the cache);
\* with N = 0 a call of _seed has all_subtiles only below a CONTAINS answer,
\* and every tile reached with no CONTAINS answer above it was asked about.
C15_SkipGeometry ==
    /\ \A t \in covCalls : ~InSkippedLevels(t)
    /\ skip_geoms_for_last_levels >= Len(levels) => covCalls = {}
    /\ \A k \in 1..Len(stack) :
         /\ Len(stack[k].levels) < skip_geoms_for_last_levels => stack[k].filter_all
         /\ (skip_geoms_for_last_levels = 0 /\ stack[k].filter_all)
              => ContainsAbove(stack[k].cur)
    /\ TraversalDone =>
         \A t \in Tiles :
           (Visited(t) /\ gridSlot[t] = "present") =>
             /\ InSkippedLevels(t) => (t \in cachedCalls /\ ~Pruned(t))
             /\ (skip_geoms_for_last_levels = 0 /\ ~ContainsAbove(Parent(t)))
                  => t \in covCalls

C15_Witness ==
    /\ pc = "stopping" /\ Len(levels) = 3 /\ skip_geoms_for_last_levels = 1
    /\ covCalls = {<<1>>, <<1, 1>>}
    /\ coverage[<<1>>] = "part" /\ coverage[<<1, 1>>] = "part"
    /\ <<1, 1, 1>> \in cachedCalls

\* ---------------------------------------------------------------- C16
\* t is d or a tile above d
IsAtOrAbove(t, d) == Len(t) <= Len(d) /\ SubSeq(d, 1, Len(t)) = t
\* the traversal has not touched t in this run but to classify it
Untouched(t) ==
    /\ t \notin cachedCalls /\ t \notin Elems(submitted)
    /\ \A k \in 1..Len(stack) : ~IsAtOrAbove(t, stack[k].cur)
    /\ \A d \in Tiles :
         IsBelow(d, t) =>
           d \notin covCalls /\ d \notin cachedCalls /\ d \notin Elems(submitted)
\* the loop of _seed takes a subtile from the generator and finds it pruned:
\* the share is added at once and the loop goes on with the next subtile
PrunedAtOnce ==
    (pc = "seeding" /\ stack' # stack /\ Top.at = "next" /\ Top.i <= Top.total)
    => LET subtile == Append(Top.cur, Top.i) IN
       (gridSlot'[subtile] = "absent"
          \/ (subtile \in covCalls' /\ coverage'[subtile] = "out"))
       => /\ progress' = RatAdd(progress, Top.progress)
          /\ stack' = SetTop(NextChild(Top))
          /\ count' = count /\ cachedCalls' = cachedCalls /\ submitted' = submitted

\* C16: a tile that is classified NONE, or for which the grid has no slot,
\* gets its full share of the progress in the step that classifies it; there
\* is no call of _seed for it, no is_cached for it and no batch of it, and
\* no tile below it is ever classified, looked up or submitted.
C16_PrunedUntouched ==
    /\ [](\A t \in Tiles : Pruned(t) => Untouched(t))
    /\ [][PrunedAtOnce]_vars

C16_Witness ==
    /\ grid = Grid2Deep /\ pc = "stopping"
    /\ covCalls = {<<1>>, <<2>>} /\ coverage[<<1>>] = "out"
    /\ submitted = << <<2, 1>>, <<2>> >>
    /\ progress = One

\* ---------------------------------------------------------------- C17
\* a step of one traversal: it neither starts the next task nor a new Seeder
SameSeeder == run' = run

RECURSIVE Plan(_, _)
Plan(cur, i) ==
    IF i > grid[Len(cur) + 1] THEN <<>>
    ELSE LET t == Append(cur, i)
             below == IF IsLeaf(t) THEN <<>> ELSE Plan(t, 1)
             own == IF t \in misses THEN <<t>> ELSE <<>>
         IN (IF Pruned(t) THEN <<>> ELSE below \o own) \o Plan(cur, i + 1)
\* a call of SeedPool.seed waits for room in the queue
PutPending == pc = "seeding" /\ Top.at = "put"
\* a step of a worker
WorkerStep ==
    /\ run' = run
    /\ procs' # procs \/ wtiles' # wtiles \/ attempts' # attempts \/ dequeued' # dequeued

\* C18: the batches submitted so far are, in order, the ones that follow from
\* the answers given so far, whatever the workers did meanwhile; count is
\* the number of SeedPool.seed calls made (one of them may wait for room);
\* when the traversal is over, the submitted sequence, count and progress are
\* the ones that follow from the answers; and a step of a worker changes
\* nothing of the traversal.
C18_SchedulingIndependence ==
    /\ [](run >= 1 =>
            /\ IsPrefix(submitted, Plan(<<>>, 1))
            /\ count = Len(Plan(<<>>, 1))
            /\ count = Len(submitted) + (IF PutPending THEN 1 ELSE 0)
            /\ TraversalDone =>
                 (submitted = Plan(<<>>, 1) /\ count = Len(submitted) /\ progress = One))
    /\ [][WorkerStep =>
            /\ seederVars' = seederVars /\ pc' = pc
            /\ submitted' = submitted /\ snapshots' = snapshots
            /\ covCalls' = covCalls /\ cachedCalls' = cachedCalls /\ misses' = misses]_vars

C18_Witness ==
    /\ grid = Grid2Deep /\ pc = "seeding" /\ PutPending
    /\ submitted = << <<1, 1>>, <<1>> >> /\ count = 3
    /\ dequeued = << <<1, 1>> >> /\ procs[1] = "crashed"

\* ---------------------------------------------------------------- C19
\* the coverage said INTERSECTS for every tile above t
AllIntersectsAbove(t) ==
    \A k \in 1..(Len(t) - 1) :
      LET a == SubSeq(t, 1, k) IN
      gridSlot[a] = "present" /\ a \in covCalls /\ coverage[a] = "part"

\* C19: a call of _seed classifies all its subtiles with the all_subtiles it
\* started with, which is set exactly below a CONTAINS answer or in the
\* skip-geometry levels, whatever the earlier siblings were; so when the
\* traversal is over a tile it reached and the grid has was tested against
\* the coverage exactly when it is outside the skip-geometry levels and has
\* no CONTAINS answer above it, and in particular when all tiles above it
\* were INTERSECTS.
C19_ContainsDoesNotLeak ==
    /\ \A k \in 1..Len(stack) :
         stack[k].filter_all <=>
           (ContainsAbove(stack[k].cur) \/ Len(stack[k].levels) < skip_geoms_for_last_levels)
    /\ \A t \in covCalls : ~ContainsAbove(Parent(t)) /\ ~InSkippedLevels(t)
    /\ TraversalDone =>
         \A t \in Tiles :
           /\ (Visited(t) /\ gridSlot[t] = "present"
                 /\ ~ContainsAbove(Parent(t)) /\ ~InSkippedLevels(t))
                => t \in covCalls
           /\ (AllIntersectsAbove(t) /\ gridSlot[t] = "present" /\ ~InSkippedLevels(t))
                => t \in covCalls

C19_Witness ==
    /\ grid = Grid2Deep /\ pc = "stopping" /\ skip_geoms_for_last_levels = 0
    /\ SaidContains(<<1>>) /\ coverage[<<2>>] = "part"
    /\ covCalls = {<<1>>, <<2>>, <<2, 1>>}
    /\ <<1, 1>> \in cachedCalls

====
